---- MODULE Spec2Model ----
(***************************************************************************)
(* Model of train_ppi_baseline.py: the driver main / train / test /        *)
(* evaluate / collate_fn, and the two model classes BasicGraphModel and    *)
(* GraphAttentionNetwork.                                                  *)
(*                                                                         *)
(* Four specifications share the module:                                   *)
(*   Spec      one run of main (args drawn in Init), statement by statement*)
(*   SpecGAT   GraphAttentionNetwork.forward's edge loop                   *)
(*   SpecBGM   BasicGraphModel.__init__ and forward                        *)
(*   SpecEval  the prediction and score of evaluate on given logits        *)
(***************************************************************************)
EXTENDS Integers, Sequences, FiniteSets, TLC

VARIABLES
    \* ---- main / train / test / evaluate
    mode,        \* args.mode
    modelName,   \* args.model
    epochs,      \* args.epochs
    batchSize,   \* args.batch_size
    pc,          \* position in the program
    epoch,       \* train: loop variable of line 98
    batchIdx,    \* train: loop variable of line 102
    testIdx,     \* loop variable of line 119 (periodic) or 131 (test)
    caller,      \* who called evaluate: "periodic" | "test" | "none"
    data,        \* the (subgraph, features) pair of the current iteration
    g,           \* model.g, the model's active graph
    training,    \* model.training (nn.Module's train/eval flag)
    params,      \* the model parameters
    grad,        \* the .grad buffers: the batches whose gradient they hold
    stateFile,   \* MODEL_STATE_FILE on disk
    losses,      \* train: the list losses of the current epoch
    scores,      \* the list scores (periodic) or test_scores (test)
    error,       \* the uncaught exception that ended the run, "" if none
    \* ---- history of the run (what has happened so far)
    events,      \* the steps of main done so far
    fwd,         \* the last forward pass: its phase, graph, features, flag
    evalLog,     \* the evaluate calls of the periodic evaluations <<e, i>>
    batchSteps,  \* the steps done for the current training batch
    \* ---- GraphAttentionNetwork.forward
    gpc, edges, Wh, att, coeffs, edgeIdx,
    \* ---- BasicGraphModel
    bpc, n_layers, sizes, layers, loopI, applied,
    \* ---- evaluate's prediction
    epc, output, labels, predict, score

mainVars == <<mode, modelName, epochs, batchSize, pc, epoch, batchIdx, testIdx,
              caller, data, g, training, params, grad, stateFile, losses,
              scores, error, events, fwd, evalLog, batchSteps>>
gatVars  == <<gpc, edges, Wh, att, coeffs, edgeIdx>>
bgmVars  == <<bpc, n_layers, sizes, layers, loopI, applied>>
evalVars == <<epc, output, labels, predict, score>>
vars     == <<mainVars, gatVars, bgmVars, evalVars>>

(***************************************************************************)
(* Bounds of the model.                                                    *)
(***************************************************************************)
MaxEpochs == 6
MaxBatchSize == 2
NTrain == 3
NTest == 2

\* line 117: if epoch % 5 == 0
EvalEvery == 5

(***************************************************************************)
(* Data: the dataset items and collate_fn.                                 *)
(***************************************************************************)
\* dataset[i]: the i-th graph of a split with its features and labels
Item(split, i) == [graph |-> <<split, i>>, features |-> <<split, i>>]

\* collate_fn: batch(graphs) and np.concatenate(features) of the samples,
\* each in the samples' order
collate_fn(sample) ==
    [graph    |-> [k \in 1..Len(sample) |-> sample[k].graph],
     features |-> [k \in 1..Len(sample) |-> sample[k].features]]

\* len(DataLoader(dataset, batch_size)): drop_last is False
NumBatches(n, bs) == (n + bs - 1) \div bs

\* the k-th batch (from 0) of DataLoader(dataset, batch_size, collate_fn):
\* no shuffling, consecutive items
LoaderBatch(split, n, bs, k) ==
    LET lo == k * bs + 1
        hi == IF (k + 1) * bs < n THEN (k + 1) * bs ELSE n
    IN  collate_fn([j \in 1..(hi - lo + 1) |-> Item(split, lo + j - 1)])

\* iterating the dataset itself yields one graph at a time with its features
DatasetItem(split, i) ==
    [graph |-> <<Item(split, i).graph>>, features |-> <<Item(split, i).features>>]

NoData == [graph |-> <<>>, features |-> <<>>]

\* self.g = None (GraphAttentionNetwork.__init__)
NoGraph == <<>>
\* g = train_dataset.graph (BasicGraphModel's constructor argument): the whole
\* training graph, index 0
WholeTrainGraph == << <<"train", 0>> >>

(***************************************************************************)
(* Model construction (lines 81-87).                                       *)
(***************************************************************************)
ModelNames == {"BGM", "GAT"}   \* any --model other than "BGM" selects the attention model

Arch(name) == IF name = "BGM" THEN "BasicGraphModel" ELSE "GraphAttentionNetwork"

InitialGraph(name) == IF name = "BGM" THEN WholeTrainGraph ELSE NoGraph

\* freshly initialised parameters, no optimizer step applied
FreshParams == [init |-> "fresh", updates |-> <<>>]
\* parameters an earlier run left in the state file
SavedParams == [init |-> "saved", updates |-> <<>>]

NoFile == [exists |-> FALSE, arch |-> "", params |-> FreshParams]
FileOf(arch) == [exists |-> TRUE, arch |-> arch, params |-> SavedParams]

NoFwd == [phase |-> "none", g |-> <<>>, features |-> <<>>, training |-> TRUE]

(***************************************************************************)
(* The other specifications' variables, at rest.                           *)
(***************************************************************************)
GatIdle == /\ gpc = "idle" /\ edges = <<>> /\ Wh = <<>> /\ att = <<>>
           /\ coeffs = <<>> /\ edgeIdx = 0
BgmIdle == /\ bpc = "idle" /\ n_layers = 0 /\ sizes = <<>> /\ layers = <<>>
           /\ loopI = 0 /\ applied = <<>>
EvalIdle == /\ epc = "idle" /\ output = <<>> /\ labels = <<>> /\ predict = <<>>
            /\ score = <<>>
MainIdle == /\ mode = "" /\ modelName = "" /\ epochs = 0 /\ batchSize = 0
            /\ pc = "idle" /\ epoch = 0 /\ batchIdx = 0 /\ testIdx = 0
            /\ caller = "none" /\ data = NoData /\ g = NoGraph
            /\ training = TRUE /\ params = FreshParams /\ grad = {}
            /\ stateFile = NoFile /\ losses = <<>> /\ scores = <<>>
            /\ error = "" /\ events = <<>> /\ fwd = NoFwd /\ evalLog = <<>>
            /\ batchSteps = <<>>

(***************************************************************************)
(* main: the state after the model, loss and optimizer are constructed     *)
(* (line 87).                                                              *)
(***************************************************************************)
MainInit ==
    /\ mode \in {"train", "test"}
    /\ modelName \in ModelNames
    /\ epochs \in 0..MaxEpochs
    /\ batchSize \in 1..MaxBatchSize
    /\ pc = "main"
    /\ epoch = 0 /\ batchIdx = 0 /\ testIdx = 0
    /\ caller = "none"
    /\ data = NoData
    /\ g = InitialGraph(modelName)
    /\ training = TRUE
    /\ params = FreshParams
    /\ grad = {}
    /\ stateFile \in {NoFile} \cup {FileOf(Arch(m)) : m \in ModelNames}
    /\ losses = <<>> /\ scores = <<>>
    /\ error = ""
    /\ events = <<>> /\ fwd = NoFwd /\ evalLog = <<>> /\ batchSteps = <<>>

Init == MainInit /\ GatIdle /\ BgmIdle /\ EvalIdle

(***************************************************************************)
(* The library calls the driver makes, by their effect on the state.       *)
(***************************************************************************)
\* line 90: if args.mode == "train": where main goes once the model is built
AfterConstructAlwaysTrains(m) == "train"
AfterConstruct(m) == IF m = "train" THEN "train" ELSE "load"

\* lines 107 and 144: model.g = subgraph
KeepActiveGraph(old, subgraph) == old
SetActiveGraph(old, subgraph) == subgraph

\* line 99: model.train()
KeepMode(flag) == flag
ModelTrain(flag) == TRUE

\* line 143: model.eval()
ModelEval(flag) == FALSE

\* line 110: optimizer.zero_grad()
KeepGrad(gr) == gr
zero_grad(gr) == {}

\* line 111: loss.backward() adds the batch's gradient to the .grad buffers
backward(gr, b) == gr \cup {b}

\* line 112: optimizer.step() moves the parameters along the .grad buffers
OptimizerStep(p, gr) == [p EXCEPT !.updates = Append(@, gr)]

\* line 92: torch.save(model.state_dict(), MODEL_STATE_FILE)
StaleStateDict(p, name) == [exists |-> TRUE, arch |-> Arch(name), params |-> FreshParams]
state_dict(p, name) == [exists |-> TRUE, arch |-> Arch(name), params |-> p]

\* line 93: torch.load raises when the file is missing; load_state_dict is
\* strict and raises on a snapshot of the other architecture
LoadOutcomeLenient(file, name) ==
    IF file.exists /\ file.arch # Arch(name) THEN "RuntimeError" ELSE "ok"
LoadOutcome(file, name) ==
    IF ~file.exists THEN "FileNotFoundError"
    ELSE IF file.arch # Arch(name) THEN "RuntimeError"
    ELSE "ok"

\* line 117: if epoch % 5 == 0
IsEvalEpochOffByOne(e) == (e + 1) % EvalEvery = 0
IsEvalEpoch(e) == e % EvalEvery = 0

OthersIdle == UNCHANGED <<gatVars, bgmVars, evalVars>>

(***************************************************************************)
(* main (lines 89-94).                                                     *)
(***************************************************************************)
\* line 90-91: enter train, or go straight to the reload
MainDispatch ==
    /\ pc = "main"
    /\ pc' = (IF AfterConstruct(mode) = "train" THEN "train_epoch" ELSE AfterConstruct(mode))
    /\ events' = (IF AfterConstruct(mode) = "train" THEN Append(events, "train_start")
                  ELSE events)
    /\ UNCHANGED <<mode, modelName, epochs, batchSize, epoch, batchIdx, testIdx,
                   caller, data, g, training, params, grad, stateFile, losses,
                   scores, error, fwd, evalLog, batchSteps>>
    /\ OthersIdle

\* line 92: torch.save(model.state_dict(), MODEL_STATE_FILE)
Save ==
    /\ pc = "save"
    /\ stateFile' = state_dict(params, modelName)
    /\ events' = Append(events, "save")
    /\ pc' = "load"
    /\ UNCHANGED <<mode, modelName, epochs, batchSize, epoch, batchIdx, testIdx,
                   caller, data, g, training, params, grad, losses, scores,
                   error, fwd, evalLog, batchSteps>>
    /\ OthersIdle

\* line 93: model.load_state_dict(torch.load(MODEL_STATE_FILE))
Load ==
    /\ pc = "load"
    /\ IF LoadOutcome(stateFile, modelName) = "ok"
       THEN /\ params' = stateFile.params
            /\ events' = Append(events, "load")
            /\ pc' = "test_begin"
            /\ error' = error
       ELSE /\ error' = LoadOutcome(stateFile, modelName)
            /\ pc' = "error"
            /\ UNCHANGED <<params, events>>
    /\ UNCHANGED <<mode, modelName, epochs, batchSize, epoch, batchIdx, testIdx,
                   caller, data, g, training, grad, stateFile, losses, scores,
                   fwd, evalLog, batchSteps>>
    /\ OthersIdle

(***************************************************************************)
(* train (lines 97-125).                                                   *)
(***************************************************************************)
\* lines 98-101: the next epoch begins (model.train(), losses = []), or the
\* loop is over and train returns
TrainEpoch ==
    /\ pc = "train_epoch"
    /\ IF epoch < epochs
       THEN /\ training' = ModelTrain(training)
            /\ losses' = <<>>
            /\ batchIdx' = 0
            /\ pc' = "train_batch"
            /\ events' = events
       ELSE /\ pc' = "save"
            /\ events' = Append(events, "train_done")
            /\ UNCHANGED <<training, losses, batchIdx>>
    /\ UNCHANGED <<mode, modelName, epochs, batchSize, epoch, testIdx, caller,
                   data, g, params, grad, stateFile, scores, error, fwd,
                   evalLog, batchSteps>>
    /\ OthersIdle

\* lines 102-106: the loader yields the next batch, or the epoch's batches
\* are done
TrainBatch ==
    /\ pc = "train_batch"
    /\ IF batchIdx < NumBatches(NTrain, batchSize)
       THEN /\ data' = LoaderBatch("train", NTrain, batchSize, batchIdx)
            /\ batchSteps' = <<>>
            /\ pc' = "set_graph"
       ELSE /\ pc' = "epoch_end"
            /\ UNCHANGED <<data, batchSteps>>
    /\ UNCHANGED <<mode, modelName, epochs, batchSize, epoch, batchIdx, testIdx,
                   caller, g, training, params, grad, stateFile, losses, scores,
                   error, events, fwd, evalLog>>
    /\ OthersIdle

\* line 107: model.g = subgraph
TrainSetGraph ==
    /\ pc = "set_graph"
    /\ g' = SetActiveGraph(g, data.graph)
    /\ batchSteps' = Append(batchSteps, "set_graph")
    /\ pc' = "forward"
    /\ UNCHANGED <<mode, modelName, epochs, batchSize, epoch, batchIdx, testIdx,
                   caller, data, training, params, grad, stateFile, losses,
                   scores, error, events, fwd, evalLog>>
    /\ OthersIdle

\* line 108: logits = model.logits(features.float()); forward reads self.g
\* (None has no number_of_nodes)
TrainForward ==
    /\ pc = "forward"
    /\ IF g = NoGraph
       THEN /\ error' = "AttributeError"
            /\ pc' = "error"
            /\ UNCHANGED <<fwd, batchSteps>>
       ELSE /\ fwd' = [phase |-> "train", g |-> g, features |-> data.features,
                       training |-> training]
            /\ batchSteps' = Append(batchSteps, "forward")
            /\ pc' = "loss"
            /\ error' = error
    /\ UNCHANGED <<mode, modelName, epochs, batchSize, epoch, batchIdx, testIdx,
                   caller, data, g, training, params, grad, stateFile, losses,
                   scores, events, evalLog>>
    /\ OthersIdle

\* line 109: loss = loss_fcn(logits, labels.float())
TrainLoss ==
    /\ pc = "loss"
    /\ batchSteps' = Append(batchSteps, "loss")
    /\ pc' = "zero_grad"
    /\ UNCHANGED <<mode, modelName, epochs, batchSize, epoch, batchIdx, testIdx,
                   caller, data, g, training, params, grad, stateFile, losses,
                   scores, error, events, fwd, evalLog>>
    /\ OthersIdle

\* line 110: optimizer.zero_grad()
TrainZeroGrad ==
    /\ pc = "zero_grad"
    /\ grad' = zero_grad(grad)
    /\ batchSteps' = Append(batchSteps, "zero_grad")
    /\ pc' = "backward"
    /\ UNCHANGED <<mode, modelName, epochs, batchSize, epoch, batchIdx, testIdx,
                   caller, data, g, training, params, stateFile, losses, scores,
                   error, events, fwd, evalLog>>
    /\ OthersIdle

\* line 111: loss.backward()
TrainBackward ==
    /\ pc = "backward"
    /\ grad' = backward(grad, <<epoch, batchIdx>>)
    /\ batchSteps' = Append(batchSteps, "backward")
    /\ pc' = "step"
    /\ UNCHANGED <<mode, modelName, epochs, batchSize, epoch, batchIdx, testIdx,
                   caller, data, g, training, params, stateFile, losses, scores,
                   error, events, fwd, evalLog>>
    /\ OthersIdle

\* line 112: optimizer.step()
TrainStep ==
    /\ pc = "step"
    /\ params' = OptimizerStep(params, grad)
    /\ batchSteps' = Append(batchSteps, "step")
    /\ pc' = "record"
    /\ UNCHANGED <<mode, modelName, epochs, batchSize, epoch, batchIdx, testIdx,
                   caller, data, g, training, grad, stateFile, losses, scores,
                   error, events, fwd, evalLog>>
    /\ OthersIdle

\* line 113: losses.append(loss.item()); the loop moves to the next batch
TrainRecord ==
    /\ pc = "record"
    /\ losses' = Append(losses, <<epoch, batchIdx>>)
    /\ batchSteps' = Append(batchSteps, "record")
    /\ batchIdx' = batchIdx + 1
    /\ pc' = "train_batch"
    /\ UNCHANGED <<mode, modelName, epochs, batchSize, epoch, testIdx, caller,
                   data, g, training, params, grad, stateFile, scores, error,
                   events, fwd, evalLog>>
    /\ OthersIdle

\* lines 114-118: the epoch's mean loss is printed; every 5th epoch the
\* periodic evaluation starts (scores = []), otherwise the next epoch
TrainEpochEnd ==
    /\ pc = "epoch_end"
    /\ IF IsEvalEpoch(epoch)
       THEN /\ scores' = <<>>
            /\ testIdx' = 0
            /\ pc' = "periodic"
            /\ epoch' = epoch
       ELSE /\ epoch' = epoch + 1
            /\ pc' = "train_epoch"
            /\ UNCHANGED <<scores, testIdx>>
    /\ UNCHANGED <<mode, modelName, epochs, batchSize, batchIdx, caller, data,
                   g, training, params, grad, stateFile, losses, error, events,
                   fwd, evalLog, batchSteps>>
    /\ OthersIdle

\* lines 119-125: the next graph of test_dataset goes to evaluate, or the mean
\* score is printed and the next epoch follows
TrainPeriodic ==
    /\ pc = "periodic"
    /\ IF testIdx < NTest
       THEN /\ data' = DatasetItem("test", testIdx + 1)
            /\ caller' = "periodic"
            /\ evalLog' = Append(evalLog, <<epoch, testIdx + 1>>)
            /\ pc' = "eval_mode"
            /\ epoch' = epoch
       ELSE /\ epoch' = epoch + 1
            /\ pc' = "train_epoch"
            /\ UNCHANGED <<data, caller, evalLog>>
    /\ UNCHANGED <<mode, modelName, epochs, batchSize, batchIdx, testIdx, g,
                   training, params, grad, stateFile, losses, scores, error,
                   events, fwd, batchSteps>>
    /\ OthersIdle

(***************************************************************************)
(* evaluate (lines 141-149), under torch.no_grad().                        *)
(***************************************************************************)
\* line 143: model.eval()
EvalMode ==
    /\ pc = "eval_mode"
    /\ training' = ModelEval(training)
    /\ pc' = "eval_set_graph"
    /\ UNCHANGED <<mode, modelName, epochs, batchSize, epoch, batchIdx, testIdx,
                   caller, data, g, params, grad, stateFile, losses, scores,
                   error, events, fwd, evalLog, batchSteps>>
    /\ OthersIdle

\* line 144: model.g = subgraph
EvalSetGraph ==
    /\ pc = "eval_set_graph"
    /\ g' = SetActiveGraph(g, data.graph)
    /\ pc' = "eval_forward"
    /\ UNCHANGED <<mode, modelName, epochs, batchSize, epoch, batchIdx, testIdx,
                   caller, data, training, params, grad, stateFile, losses,
                   scores, error, events, fwd, evalLog, batchSteps>>
    /\ OthersIdle

\* line 145: output = model.logits(features.float())
EvalForward ==
    /\ pc = "eval_forward"
    /\ IF g = NoGraph
       THEN /\ error' = "AttributeError"
            /\ pc' = "error"
            /\ fwd' = fwd
       ELSE /\ fwd' = [phase |-> caller, g |-> g, features |-> data.features,
                       training |-> training]
            /\ pc' = "eval_score"
            /\ error' = error
    /\ UNCHANGED <<mode, modelName, epochs, batchSize, epoch, batchIdx, testIdx,
                   caller, data, g, training, params, grad, stateFile, losses,
                   scores, events, evalLog, batchSteps>>
    /\ OthersIdle

\* lines 146-149: loss, prediction and score; evaluate returns and its
\* caller appends the score and moves to its next item
EvalReturn ==
    /\ pc = "eval_score"
    /\ scores' = Append(scores, data.graph)
    /\ testIdx' = testIdx + 1
    /\ pc' = (IF caller = "periodic" THEN "periodic" ELSE "test")
    /\ caller' = "none"
    /\ UNCHANGED <<mode, modelName, epochs, batchSize, epoch, batchIdx, data, g,
                   training, params, grad, stateFile, losses, error, events,
                   fwd, evalLog, batchSteps>>
    /\ OthersIdle

(***************************************************************************)
(* test (lines 128-138).                                                   *)
(***************************************************************************)
\* lines 129-130: test_scores = []
TestBegin ==
    /\ pc = "test_begin"
    /\ scores' = <<>>
    /\ testIdx' = 0
    /\ events' = Append(events, "test_start")
    /\ pc' = "test"
    /\ UNCHANGED <<mode, modelName, epochs, batchSize, epoch, batchIdx, caller,
                   data, g, training, params, grad, stateFile, losses, error,
                   fwd, evalLog, batchSteps>>
    /\ OthersIdle

\* lines 131-138: the next batch of test_dataloader goes to evaluate, or the
\* mean score is returned
TestBatch ==
    /\ pc = "test"
    /\ IF testIdx < NumBatches(NTest, batchSize)
       THEN /\ data' = LoaderBatch("test", NTest, batchSize, testIdx)
            /\ caller' = "test"
            /\ pc' = "eval_mode"
            /\ events' = events
       ELSE /\ pc' = "done"
            /\ events' = Append(events, "test_done")
            /\ UNCHANGED <<data, caller>>
    /\ UNCHANGED <<mode, modelName, epochs, batchSize, epoch, batchIdx, testIdx,
                   g, training, params, grad, stateFile, losses, scores, error,
                   fwd, evalLog, batchSteps>>
    /\ OthersIdle

Next ==
    \/ MainDispatch
    \/ TrainEpoch
    \/ TrainBatch
    \/ TrainSetGraph
    \/ TrainForward
    \/ TrainLoss
    \/ TrainZeroGrad
    \/ TrainBackward
    \/ TrainStep
    \/ TrainRecord
    \/ TrainEpochEnd
    \/ TrainPeriodic
    \/ EvalMode
    \/ EvalSetGraph
    \/ EvalForward
    \/ EvalReturn
    \/ Save
    \/ Load
    \/ TestBegin
    \/ TestBatch

Spec == Init /\ [][Next]_vars

(***************************************************************************)
(* Properties of a run of main, checked under Spec.                        *)
(***************************************************************************)
IsPrefix(s, t) == /\ Len(s) <= Len(t)
                  /\ \A i \in 1..Len(s) : s[i] = t[i]

\* the positions of the final test: test and the evaluate calls it makes
InFinalTest == \/ pc \in {"test_begin", "test", "done"}
               \/ (pc \in {"eval_mode", "eval_set_graph", "eval_forward", "eval_score"}
                   /\ caller = "test")

\* C1: main runs train, save, reload, test in this order when mode is train
\* and reload, test when mode is test (no training, no save); the final test
\* runs on the parameters read from the state file and is the last step.
C1_MainOrder ==
    /\ mode = "train" =>
           IsPrefix(events, <<"train_start", "train_done", "save", "load",
                              "test_start", "test_done">>)
    /\ mode = "test" => IsPrefix(events, <<"load", "test_start", "test_done">>)
    /\ InFinalTest => /\ stateFile.exists
                      /\ params = stateFile.params
                      /\ \E k \in 1..Len(events) : events[k] = "load"
    /\ pc = "done" => events[Len(events)] = "test_done"

C1_Witness ==
    /\ pc = "done"
    /\ mode = "train"
    /\ events = <<"train_start", "train_done", "save", "load", "test_start", "test_done">>
    /\ Len(params.updates) > 0

\* C2: with mode test and no state file, the run ends at the load step in a
\* missing-file error; the final test is never reached.
C2_MissingFileIsFatal ==
    (mode = "test" /\ ~stateFile.exists) =>
        \/ pc \in {"main", "load"}
        \/ /\ pc = "error"
           /\ error = "FileNotFoundError"
           /\ fwd = NoFwd
           /\ events = <<>>

C2_Witness ==
    /\ mode = "test"
    /\ ~stateFile.exists
    /\ pc = "error"
    /\ error = "FileNotFoundError"

\* C4: every forward pass (training batch, periodic evaluation, final test)
\* runs with model.g set to the graph of the features it is given: not None,
\* not the constructor's graph, not another batch's graph.
C4_ActiveGraphIsCurrent ==
    fwd.phase # "none" =>
        /\ fwd.g # NoGraph
        /\ fwd.g # WholeTrainGraph
        /\ Len(fwd.g) = Len(fwd.features)
        /\ \A k \in 1..Len(fwd.features) : fwd.g[k] = fwd.features[k]

C4_Witness ==
    /\ fwd.phase = "test"
    /\ mode = "train"
    /\ epochs > 0
    /\ Len(fwd.g) > 1
    /\ fwd.g = fwd.features

\* the evaluate calls the periodic evaluation of epoch e has made
EvalsOf(e) == SelectSeq(evalLog, LAMBDA x : x[1] = e)

\* C5: the periodic evaluation runs at the end of epoch e iff e % 5 = 0; it
\* calls evaluate once per graph of the test dataset, in order, after all the
\* epoch's batches and before the next epoch's first batch.
C5_PeriodicEvaluation ==
    /\ \A k \in 1..Len(evalLog) : evalLog[k][1] % 5 = 0
    /\ \A e \in 0..epochs :
          /\ e < epoch => EvalsOf(e) = (IF e % 5 = 0
                                         THEN [i \in 1..NTest |-> <<e, i>>]
                                         ELSE <<>>)
          /\ e > epoch => EvalsOf(e) = <<>>
    /\ IsPrefix(EvalsOf(epoch), [i \in 1..NTest |-> <<epoch, i>>])
    /\ EvalsOf(epoch) # <<>> =>
          /\ Len(losses) = NumBatches(NTrain, batchSize)
          /\ Len(params.updates) = (epoch + 1) * NumBatches(NTrain, batchSize)

C5_Witness ==
    /\ pc = "done"
    /\ \E k \in 1..Len(evalLog) : evalLog[k] = <<5, NTest>>
    /\ \E k \in 1..Len(evalLog) : evalLog[k] = <<0, 1>>
    /\ epochs > 5

\* C7 as stated: only the optimizer step changes the parameters.
C7_OnlyOptimizerStepChangesParams ==
    [][params' # params => pc = "step"]_vars

\* C7 amended: the parameters change only at the optimizer step and at the
\* reload of a run in test mode (which replaces the fresh parameters by the
\* file's); evaluate, the periodic evaluation, the final test, the save and
\* the reload of a run in train mode leave them as they are.
C7_StepOrTestModeReloadChangesParams ==
    [][params' # params => (pc = "step" \/ (pc = "load" /\ mode = "test"))]_vars

C7_Witness ==
    /\ mode = "test"
    /\ pc = "done"
    /\ params = SavedParams
    /\ params # FreshParams

BatchOrder == <<"set_graph", "forward", "loss", "zero_grad", "backward", "step", "record">>

\* C8: each training batch goes through set graph, forward, loss, zero
\* gradients, backpropagate, optimizer step, record, once each in this order;
\* the k-th optimizer step uses the gradient of the k-th batch alone; E epochs
\* over B batches make E*B steps and B recorded losses per epoch.
C8_BatchStepOrder ==
    LET B == NumBatches(NTrain, batchSize) IN
    /\ IsPrefix(batchSteps, BatchOrder)
    /\ (pc = "train_batch" /\ batchIdx > 0) => batchSteps = BatchOrder
    /\ \A k \in 1..Len(params.updates) :
          params.updates[k] = {<<(k - 1) \div B, (k - 1) % B>>}
    /\ pc = "train_batch" => /\ Len(params.updates) = epoch * B + batchIdx
                             /\ Len(losses) = batchIdx
    /\ pc = "epoch_end" => losses = [b \in 1..B |-> <<epoch, b - 1>>]
    /\ (mode = "train" /\ pc \in {"save", "load", "test_begin", "done"}) =>
          Len(params.updates) = epochs * B

C8_Witness ==
    /\ pc = "save"
    /\ epochs > 1
    /\ NumBatches(NTrain, batchSize) > 1
    /\ Len(params.updates) = epochs * NumBatches(NTrain, batchSize)

\* C10: a training batch's forward pass runs in training mode, also in the
\* epochs after a periodic evaluation; a forward pass of evaluate runs in
\* eval mode.
C10_ModeMatchesPhase ==
    /\ fwd.phase = "train" => fwd.training
    /\ fwd.phase \in {"periodic", "test"} => ~fwd.training

C10_Witness ==
    /\ fwd.phase = "train"
    /\ fwd.training
    /\ epoch = 1
    /\ evalLog # <<>>

(***************************************************************************)
(* GraphAttentionNetwork.forward (lines 54-67): the edge loop that fills   *)
(* the coefficient matrix.                                                 *)
(***************************************************************************)
NNodes == 2
MaxEdges == 3

Nodes == 0..(NNodes - 1)

\* the edge lists self.g.all_edges() may return: any pairs, in any order,
\* both directions, duplicates and self-loops included
RECURSIVE EdgeLists(_)
EdgeLists(n) ==
    IF n = 0 THEN {<<>>}
    ELSE LET shorter == EdgeLists(n - 1)
         IN  shorter \cup {Append(l, e) : l \in {x \in shorter : Len(x) = n - 1},
                                          e \in Nodes \X Nodes}

\* Wh = self.linear(inputs): one output_F-vector per node
WhChoices == {[u \in Nodes |-> <<u + 1, 1>>], [u \in Nodes |-> <<1, u>>]}

\* self.attention = nn.Linear(2*output_F, 1): a weight per input and a bias
AttChoices == {[w |-> <<1, 0, 2, 1>>, b |-> 1], [w |-> <<1, 1, 1, 1>>, b |-> 0]}

\* line 61: self.attention(torch.cat((Wh[u], Wh[v])))
Attention(a, hu, hv) ==
    LET x == hu \o hv
        RECURSIVE Dot(_)
        Dot(k) == IF k = 0 THEN 0 ELSE a.w[k] * x[k] + Dot(k - 1)
    IN  Dot(Len(x)) + a.b

\* lines 62-63: coeffs[u,v] = coeff; coeffs[v,u] = coeff
AssignOneWay(c, u, v, coeff) == [c EXCEPT ![u][v] = coeff]
AssignEdge(c, u, v, coeff) == [[c EXCEPT ![u][v] = coeff] EXCEPT ![v][u] = coeff]

\* line 58: coeffs = torch.zeros((n_nodes, n_nodes))
ZeroCoeffs == [u \in Nodes |-> [v \in Nodes |-> 0]]

\* the state at line 60, before the first edge
GatInit ==
    /\ gpc = "edges"
    /\ edges \in EdgeLists(MaxEdges)
    /\ Wh \in WhChoices
    /\ att \in AttChoices
    /\ coeffs = ZeroCoeffs
    /\ edgeIdx = 0

\* lines 60-63: one iteration of the edge loop
GatEdge ==
    /\ gpc = "edges"
    /\ edgeIdx < Len(edges)
    /\ LET u == edges[edgeIdx + 1][1]
           v == edges[edgeIdx + 1][2]
       IN  coeffs' = AssignEdge(coeffs, u, v, Attention(att, Wh[u], Wh[v]))
    /\ edgeIdx' = edgeIdx + 1
    /\ UNCHANGED <<gpc, edges, Wh, att>>
    /\ UNCHANGED <<mainVars, bgmVars, evalVars>>

\* line 60: the edges are exhausted; the matrix goes on to lines 65-67
GatLoopExit ==
    /\ gpc = "edges"
    /\ edgeIdx = Len(edges)
    /\ gpc' = "softmax"
    /\ UNCHANGED <<edges, Wh, att, coeffs, edgeIdx>>
    /\ UNCHANGED <<mainVars, bgmVars, evalVars>>

InitGAT == GatInit /\ MainIdle /\ BgmIdle /\ EvalIdle

NextGAT ==
    \/ GatEdge
    \/ GatLoopExit

SpecGAT == InitGAT /\ [][NextGAT]_vars

\* the score of the pair (u, v): from the concatenation of Wh[u] and Wh[v]
Score(u, v) == Attention(att, Wh[u], Wh[v])

\* the edges among the first n that join u and v, in either direction
Joining(u, v, n) == {k \in 1..n : edges[k] = <<u, v>> \/ edges[k] = <<v, u>>}

Latest(K) == CHOOSE k \in K : \A j \in K : j <= k

\* C6 as stated: after the loop, for every edge (u,v) both entries (u,v) and
\* (v,u) hold the score of Wh[u] with Wh[v], and the entries of pairs that no
\* edge joins are zero.
C6_EveryEdgeHoldsItsOwnScore ==
    gpc = "softmax" =>
        /\ \A k \in 1..Len(edges) :
              LET u == edges[k][1]
                  v == edges[k][2]
              IN  coeffs[u][v] = Score(u, v) /\ coeffs[v][u] = Score(u, v)
        /\ \A u, v \in Nodes :
              Joining(u, v, Len(edges)) = {} => coeffs[u][v] = 0

\* C6 amended: at every point of the loop, for every pair joined by an edge
\* processed so far (in either direction) both entries hold the score of the
\* last such edge, computed in that edge's own orientation; the entries of
\* pairs joined by no processed edge are zero.
C6_LastEdgeOfPairWins ==
    gpc \in {"edges", "softmax"} =>
        \A u, v \in Nodes :
            LET K == Joining(u, v, edgeIdx)
            IN  IF K = {}
                THEN coeffs[u][v] = 0
                ELSE LET e == edges[Latest(K)]
                     IN  /\ coeffs[u][v] = Score(e[1], e[2])
                         /\ coeffs[v][u] = Score(e[1], e[2])

C6_Witness ==
    /\ gpc = "softmax"
    /\ Len(edges) = 3
    /\ edges[1] = <<0, 1>>
    /\ edges[2] = <<1, 0>>
    /\ edges[3] = <<1, 1>>
    /\ Score(0, 1) # Score(1, 0)
    /\ coeffs[0][1] = Score(1, 0)
    /\ coeffs[1][0] = Score(1, 0)
    /\ coeffs[0][0] = 0

(***************************************************************************)
(* BasicGraphModel (lines 18-33): __init__ builds the layers, forward      *)
(* applies them.                                                           *)
(***************************************************************************)
MaxLayers == 3

InputSizes == {3, 5}
HiddenSizes == {2, 4}
OutputSizes == {1, 2}

\* GraphConv(in_feats, out_feats, activation=...)
GraphConv(inF, outF, act) == [inF |-> inF, outF |-> outF, act |-> act]

\* the width of forward's outputs so far
Width == IF applied = <<>> THEN sizes.input ELSE applied[Len(applied)].outF

\* the state at line 23: self.layers = nn.ModuleList()
BgmInit ==
    /\ bpc = "first"
    /\ n_layers \in 0..MaxLayers
    /\ sizes \in [input : InputSizes, hidden : HiddenSizes, output : OutputSizes]
    /\ layers = <<>>
    /\ loopI = 0
    /\ applied = <<>>

\* line 24: the first layer, input_size to hidden_size, with the nonlinearity
BgmFirstLayer ==
    /\ bpc = "first"
    /\ layers' = Append(layers, GraphConv(sizes.input, sizes.hidden, "nonlinearity"))
    /\ loopI' = 0
    /\ bpc' = "loop"
    /\ UNCHANGED <<n_layers, sizes, applied>>
    /\ UNCHANGED <<mainVars, gatVars, evalVars>>

\* lines 25-26: for i in range(n_layers - 1): a hidden to hidden layer
BgmHiddenLayer ==
    /\ bpc = "loop"
    /\ loopI < n_layers - 1
    /\ layers' = Append(layers, GraphConv(sizes.hidden, sizes.hidden, "nonlinearity"))
    /\ loopI' = loopI + 1
    /\ UNCHANGED <<bpc, n_layers, sizes, applied>>
    /\ UNCHANGED <<mainVars, gatVars, evalVars>>

\* line 27: after the loop, the final layer, hidden_size to output_size,
\* without activation
BgmFinalLayer ==
    /\ bpc = "loop"
    /\ ~(loopI < n_layers - 1)
    /\ layers' = Append(layers, GraphConv(sizes.hidden, sizes.output, "none"))
    /\ loopI' = 0
    /\ bpc' = "forward"
    /\ UNCHANGED <<n_layers, sizes, applied>>
    /\ UNCHANGED <<mainVars, gatVars, evalVars>>

\* lines 31-32: outputs = layer(self.g, outputs), the layers in order; a
\* layer given features of another width than its in_feats raises
BgmForwardLayer ==
    /\ bpc = "forward"
    /\ loopI < Len(layers)
    /\ IF layers[loopI + 1].inF # Width
       THEN /\ bpc' = "error"
            /\ UNCHANGED <<applied, loopI>>
       ELSE /\ applied' = Append(applied, layers[loopI + 1])
            /\ loopI' = loopI + 1
            /\ bpc' = bpc
    /\ UNCHANGED <<n_layers, sizes, layers>>
    /\ UNCHANGED <<mainVars, gatVars, evalVars>>

\* line 33: return outputs
BgmReturn ==
    /\ bpc = "forward"
    /\ loopI = Len(layers)
    /\ bpc' = "done"
    /\ UNCHANGED <<n_layers, sizes, layers, loopI, applied>>
    /\ UNCHANGED <<mainVars, gatVars, evalVars>>

InitBGM == BgmInit /\ MainIdle /\ GatIdle /\ EvalIdle

NextBGM ==
    \/ BgmFirstLayer
    \/ BgmHiddenLayer
    \/ BgmFinalLayer
    \/ BgmForwardLayer
    \/ BgmReturn

SpecBGM == InitBGM /\ [][NextBGM]_vars

\* C9: a model built with n_layers = N, N >= 0, applies exactly N hidden
\* layers with the nonlinearity and then one final layer without it that maps
\* to output_size; the first layer takes input_size and each layer's input
\* width is the previous layer's output width.
C9_NHiddenLayersThenFinal ==
    bpc = "done" =>
        /\ Len(applied) = n_layers + 1
        /\ \A k \in 1..Len(applied) :
              /\ (k <= n_layers) => applied[k].act = "nonlinearity"
              /\ (k = n_layers + 1) => applied[k].act = "none"
              /\ (k > 1) => applied[k].inF = applied[k - 1].outF
        /\ applied[1].inF = sizes.input
        /\ applied[Len(applied)].outF = sizes.output
        /\ applied[Len(applied)].act = "none"

(***************************************************************************)
(* evaluate (lines 146-149): the prediction and the score, on the output   *)
(* of the forward pass.  Reals are fractions <<numerator, denominator>>.   *)
(***************************************************************************)
NPairs == 2

GE(a, b) == a[1] * b[2] >= b[1] * a[2]

\* line 147: the threshold 0.5
Half == <<1, 2>>

\* the logits of the model, in quarters from -1 to 1
Logits == {<<n, 4>> : n \in -4..4}

\* the probability BCEWithLogitsLoss gives a logit: its sigmoid, in
\* thousandths (rounded)
Sigmoid(x) ==
    CASE x[1] = -4 -> <<269, 1000>>
      [] x[1] = -3 -> <<321, 1000>>
      [] x[1] = -2 -> <<378, 1000>>
      [] x[1] = -1 -> <<438, 1000>>
      [] x[1] = 0  -> <<500, 1000>>
      [] x[1] = 1  -> <<562, 1000>>
      [] x[1] = 2  -> <<622, 1000>>
      [] x[1] = 3  -> <<679, 1000>>
      [] x[1] = 4  -> <<731, 1000>>

\* line 147: predict = np.where(output >= 0.5, 1, 0)
Predict(out) == [i \in 1..Len(out) |-> IF GE(out[i], Half) THEN 1 ELSE 0]

\* line 148: f1_score(labels, predict, average="micro"): 2TP / (2TP + FP + FN)
\* over all node-class pairs, 0 when there is nothing to count
f1_score(y, p) ==
    LET tp == Cardinality({i \in 1..Len(y) : y[i] = 1 /\ p[i] = 1})
        fp == Cardinality({i \in 1..Len(y) : y[i] = 0 /\ p[i] = 1})
        fn == Cardinality({i \in 1..Len(y) : y[i] = 1 /\ p[i] = 0})
    IN  IF 2 * tp + fp + fn = 0 THEN <<0, 1>> ELSE <<2 * tp, 2 * tp + fp + fn>>

\* the state at line 146: the forward pass has returned output
EvalInit ==
    /\ epc = "predict"
    /\ output \in [1..NPairs -> Logits]
    /\ labels \in [1..NPairs -> {0, 1}]
    /\ predict = <<>>
    /\ score = <<>>

\* lines 146-147: the loss, then the prediction
EvalPredict ==
    /\ epc = "predict"
    /\ predict' = Predict(output)
    /\ epc' = "score"
    /\ UNCHANGED <<output, labels, score>>
    /\ UNCHANGED <<mainVars, gatVars, bgmVars>>

\* lines 148-149: the score
EvalScore ==
    /\ epc = "score"
    /\ score' = f1_score(labels, predict)
    /\ epc' = "done"
    /\ UNCHANGED <<output, labels, predict>>
    /\ UNCHANGED <<mainVars, gatVars, bgmVars>>

InitEval == EvalInit /\ MainIdle /\ GatIdle /\ BgmIdle

NextEval ==
    \/ EvalPredict
    \/ EvalScore

SpecEval == InitEval /\ [][NextEval]_vars

\* C3: the prediction of a node-class pair is 1 exactly when its probability,
\* the sigmoid of its logit, is at least 0.5, and the micro-F1 is that of
\* these predictions.
C3_PredictionThresholdsProbability ==
    epc = "done" =>
        /\ \A i \in 1..NPairs :
              predict[i] = (IF GE(Sigmoid(output[i]), Half) THEN 1 ELSE 0)
        /\ score = f1_score(labels, predict)

====
